---- MODULE Spec2Model ----
(***************************************************************************)
(* WebIdentityProvider (rusoto_sts, custom/web_identity.rs): a provider    *)
(* holding three lazily resolved Variables (token, role ARN, session name) *)
(* and the poll-based future that exchanges them for credentials through   *)
(* AssumeRoleWithWebIdentity.                                              *)
(***************************************************************************)
EXTENDS Integers, Sequences, FiniteSets, TLC

VARIABLES
    env,        \* process environment: variable name -> Option(String)
    files,      \* file system: path -> Option(contents as a sequence of characters)
    provider,   \* the WebIdentityProvider (immutable once constructed)
    ctor,       \* how the provider was constructed: constructor name and arguments
    attempts,   \* attempt id -> WebIdentityProviderFuture and what its last poll returned
    calls,      \* invocations observed by the STS client, in order of issue
    loaded      \* what the last call of load_token returned

vars == <<env, files, provider, ctor, attempts, calls, loaded>>

\* ------------------------------------------------------------------ bounds
\* Largest number of trailing newline characters written after the token in
\* the token file.
MaxTrail == 1

\* --------------------------------------------------------------- constants
AWS_WEB_IDENTITY_TOKEN_FILE == "AWS_WEB_IDENTITY_TOKEN_FILE"
AWS_ROLE_ARN == "AWS_ROLE_ARN"
AWS_ROLE_SESSION_NAME == "AWS_ROLE_SESSION_NAME"

EnvKeys == {AWS_WEB_IDENTITY_TOKEN_FILE, AWS_ROLE_ARN, AWS_ROLE_SESSION_NAME}

\* Values of the unit test tests::from_k8s_env.
TOKEN_VALUE == <<"s", "e", "c", "r", "e", "t">>
ROLE_ARN == "role"
SESSION_NAME == "session"

TokenPath == "/var/run/secrets/token"
Paths == {TokenPath}

AttemptIds == {1, 2}

\* ---------------------------------------------------- Option and Result
None == [some |-> FALSE]
Some(x) == [some |-> TRUE, v |-> x]
Ok(x) == [ok |-> TRUE, v |-> x]
Err(x) == [ok |-> FALSE, e |-> x]

\* Secret wraps the token text; as_ref gives the text back.
SecretFrom(s) == [secret |-> s]
as_ref(t) == t.secret

\* CredentialsError carries one message.  The message is held structured:
\* its text, the input it is about (if any), and the Debug rendering that
\* format! appended (if any).
CredentialsError(msg) == [message |-> msg]
Message(text) == [text |-> text, about |-> "", debug |-> None]
MissingInput(what) == CredentialsError([text |-> "MissingInput", about |-> what, debug |-> None])

\* ---------------------------------------------------------- text files
Whitespace == {"\n", " ", "\t", "\r"}

RECURSIVE Newlines(_)
Newlines(k) == IF k = 0 THEN <<>> ELSE <<"\n">> \o Newlines(k - 1)

\* What writeln!(file, "{}", TOKEN_VALUE) and platform token writers leave
\* in the token file: the token followed by 0..MaxTrail newlines.
FileTexts == {TOKEN_VALUE \o Newlines(k) : k \in 0..MaxTrail}

\* str::trim_end: the longest prefix that does not end in whitespace.
RECURSIVE TrimEnd(_)
TrimEnd(s) ==
    IF s = <<>> THEN <<>>
    ELSE IF s[Len(s)] \in Whitespace THEN TrimEnd(SubSeq(s, 1, Len(s) - 1))
    ELSE s

\* --------------------------------------------------- Variable<T, E>
with_value(x) == [kind |-> "Fixed", value |-> x]
from_env_var(key) == [kind |-> "EnvironmentLookup", key |-> key]
from_text_file(path) == [kind |-> "FileContents", path |-> path]
\* Variable::dynamic(move || Variable::from_text_file(token_file.resolve()?).resolve())
dynamic_token_file(token_file) == [kind |-> "Computed", f |-> "token_file", token_file |-> token_file]
\* Variable::dynamic(|| Err(CredentialsError::new(msg))): a caller-supplied
\* source whose computation fails.
dynamic_failing(text) == [kind |-> "Computed", f |-> "failing", error |-> CredentialsError(Message(text))]

RECURSIVE resolve(_, _, _)
RECURSIVE token_file_closure(_, _, _)

\* The closure reading the file as it is, without Variable::from_text_file.
token_file_closure_raw(token_file, e, f) ==
    LET path == resolve(token_file, e, f)
    IN  IF ~path.ok THEN Err(path.e)
        ELSE IF path.v \in DOMAIN f /\ f[path.v].some
        THEN Ok(SecretFrom(f[path.v].v))
        ELSE Err(MissingInput(path.v))

\* The closure built by _from_k8s_env: resolve the path (the ? operator
\* returns the path's error), then read and trim the file at that path.
token_file_closure(token_file, e, f) ==
    LET path == resolve(token_file, e, f)
    IN  IF ~path.ok THEN Err(path.e)
        ELSE resolve(from_text_file(path.v), e, f)

resolve(var, e, f) ==
    CASE var.kind = "Fixed" -> Ok(var.value)
      [] var.kind = "EnvironmentLookup" ->
            IF e[var.key].some THEN Ok(e[var.key].v) ELSE Err(MissingInput(var.key))
      [] var.kind = "FileContents" ->
            IF var.path \in DOMAIN f /\ f[var.path].some
            THEN Ok(SecretFrom(TrimEnd(f[var.path].v)))
            ELSE Err(MissingInput(var.path))
      [] var.kind = "Computed" /\ var.f = "token_file" ->
            token_file_closure(var.token_file, e, f)
      [] var.kind = "Computed" /\ var.f = "failing" -> Err(var.error)

\* ------------------------------------------------- WebIdentityProvider
create_session_name == "WebIdentitySession"

\* new with the absent session name read from the environment instead of
\* defaulted.
new_env_default(web_identity_token, role_arn, role_session_name) ==
    [ web_identity_token |-> web_identity_token,
      role_arn |-> role_arn,
      role_session_name |->
          IF role_session_name.some THEN role_session_name.v
          ELSE from_env_var(AWS_ROLE_SESSION_NAME) ]

\* role_session_name: Option<C>; .map(|v| v.into()).unwrap_or_else(default)
new(web_identity_token, role_arn, role_session_name) ==
    [ web_identity_token |-> web_identity_token,
      role_arn |-> role_arn,
      role_session_name |->
          IF role_session_name.some THEN role_session_name.v
          ELSE with_value(create_session_name) ]

_from_k8s_env(token_file, role, session_name) ==
    new(dynamic_token_file(token_file), role, session_name)

from_k8s_env ==
    _from_k8s_env(from_env_var(AWS_WEB_IDENTITY_TOKEN_FILE),
                  from_env_var(AWS_ROLE_ARN),
                  Some(from_env_var(AWS_ROLE_SESSION_NAME)))

load_token(p, e, f) == resolve(p.web_identity_token, e, f)

\* ----------------------------------------------------------- credentials
\* A field of the future's state that the current variant does not hold.
Gone == [gone |-> TRUE]

NotPolled == [kind |-> "NotPolled"]
NotReady == [kind |-> "NotReady"]
Ready(c) == [kind |-> "Ready", creds |-> c]
PollErr(e) == [kind |-> "Err", e |-> e]

NotStarted ==
    [ state |-> "NotStarted", token |-> Gone, role |-> Gone, session |-> Gone,
      future |-> 0, last |-> NotPolled, stale |-> FALSE ]

\* credentials reusing the token load_token returned last, when there is one.
credentials_cached(p, e, f) ==
    [ state |-> "LoadBearerToken",
      token |-> IF loaded.result.some THEN loaded.result.v ELSE load_token(p, e, f),
      role |-> resolve(p.role_arn, e, f),
      session |-> resolve(p.role_session_name, e, f),
      future |-> 0, last |-> NotPolled, stale |-> FALSE ]

\* ProvideAwsCredentials::credentials: the three Variables are resolved here,
\* and their Results stored in the LoadBearerToken state.
credentials(p, e, f) ==
    [ state |-> "LoadBearerToken",
      token |-> load_token(p, e, f),
      role |-> resolve(p.role_arn, e, f),
      session |-> resolve(p.role_session_name, e, f),
      future |-> 0, last |-> NotPolled, stale |-> FALSE ]

\* ------------------------------------------------------ the STS client
STSCredentials ==
    { [ access_key_id |-> "AKIA1", secret_access_key |-> "sk1",
        session_token |-> "st1", expiration |-> "2030-01-01T00:00:00Z" ],
      [ access_key_id |-> "AKIA2", secret_access_key |-> "sk2",
        session_token |-> "st2", expiration |-> "2031-06-01T12:00:00Z" ] }

\* AssumeRoleWithWebIdentityResponse: the optional credentials and one of
\* the other response fields.
Responses ==
    { [credentials |-> Some(c), audience |-> Some("aud")] : c \in STSCredentials }
    \cup { [credentials |-> None, audience |-> Some("aud")] }

\* AssumeRoleWithWebIdentityError: a service error and a transport error.
RemoteErrors ==
    { [variant |-> "ExpiredToken", cause |-> "token is expired"],
      [variant |-> "HttpDispatch", cause |-> "connection reset"] }

RemoteResults ==
    { [kind |-> "response", r |-> r] : r \in Responses }
    \cup { [kind |-> "error", e |-> e] : e \in RemoteErrors }

NoResult == [kind |-> "none"]

\* What the first poll of the RusotoFuture finds: still in flight, or a
\* result already there.
FirstPolls ==
    { [status |-> "pending", result |-> NoResult] }
    \cup { [status |-> "ready", result |-> x] : x \in RemoteResults }

\* HttpClient::new() builds the TLS connector and may fail.
HttpClientResults == { Ok("HttpClient"), Err([cause |-> "TLS backend cannot be initialized"]) }

\* What a poll meets outside the future: the outcome of HttpClient::new()
\* and, when the client was built, what the first poll of the RusotoFuture
\* finds.  Only the arm with three resolved inputs reads them.
PollInputs(att) ==
    IF att.state = "LoadBearerToken" /\ att.token.ok /\ att.role.ok /\ att.session.ok
    THEN { [http |-> h, first |-> f] : h \in {x \in HttpClientResults : x.ok}, f \in FirstPolls }
         \cup { [http |-> h, first |-> [status |-> "pending", result |-> NoResult]] :
                    h \in {x \in HttpClientResults : ~x.ok} }
    ELSE { [http |-> Ok("HttpClient"), first |-> [status |-> "pending", result |-> NoResult]] }

\* Display of an error: its message.
to_string(e) == e.cause

\* {:?} of the response: the derived Debug prints the type and every field.
DebugFmt(r) == [type_name |-> "AssumeRoleWithWebIdentityResponse", fields |-> r]

\* NewAwsCredsForStsCreds::new_for_credentials: the STS credentials in the
\* AwsCredentials representation.
new_for_credentials(c) ==
    Ok([ key |-> c.access_key_id, secret |-> c.secret_access_key,
         token |-> Some(c.session_token), expires_at |-> Some(c.expiration) ])

\* sts.assume_role_with_web_identity(req): the request is handed to the
\* client; the returned future is the index of the invocation.
assume_role_with_web_identity(cs, owner, req, first) ==
    Append(cs, [owner |-> owner, req |-> req, status |-> first.status, result |-> first.result])

\* The arm Ok(Async::Ready(r)) yielding credentials without the session
\* token and the expiration.
ready_response_partial(r) ==
    IF r.credentials.some
    THEN Ready([ key |-> r.credentials.v.access_key_id,
                 secret |-> r.credentials.v.secret_access_key,
                 token |-> None, expires_at |-> None ])
    ELSE PollErr(CredentialsError(
             [ text |-> "No credentials found in AssumeRoleWithWebIdentityResponse: ",
               about |-> "", debug |-> Some(DebugFmt(r)) ]))

\* The arm Ok(Async::Ready(r)) reporting the empty response without the
\* response itself.
ready_response_bare(r) ==
    IF r.credentials.some
    THEN LET conv == new_for_credentials(r.credentials.v)
         IN  IF conv.ok THEN Ready(conv.v) ELSE PollErr(conv.e)
    ELSE PollErr(CredentialsError(
             Message("No credentials found in AssumeRoleWithWebIdentityResponse")))

\* poll, ExchangeToken arm, Ok(Async::Ready(r)): the response's credentials
\* converted, or the error that shows the response.
ready_response(r) ==
    IF r.credentials.some
    THEN LET conv == new_for_credentials(r.credentials.v)
         IN  IF conv.ok THEN Ready(conv.v) ELSE PollErr(conv.e)
    ELSE PollErr(CredentialsError(
             [ text |-> "No credentials found in AssumeRoleWithWebIdentityResponse: ",
               about |-> "", debug |-> Some(DebugFmt(r)) ]))

\* The arm Err(e) reporting the variant of the error in place of its message.
failed_exchange_variant(e) == PollErr(CredentialsError(Message(e.variant)))

\* poll, ExchangeToken arm, Err(e).
failed_exchange(e) == PollErr(CredentialsError(Message(to_string(e))))

\* The ExchangeToken arm polling the invocation issued last instead of the
\* future the attempt holds.
poll_exchange_latest(att, cs) ==
    LET c == cs[Len(cs)]
        taken == [cs EXCEPT ![Len(cs)].status = "taken"]
    IN  IF c.status # "ready"
        THEN [att |-> [att EXCEPT !.last = NotReady], calls |-> cs]
        ELSE IF c.result.kind = "response"
        THEN [att |-> [att EXCEPT !.last = ready_response(c.result.r)], calls |-> taken]
        ELSE [att |-> [att EXCEPT !.last = failed_exchange(c.result.e)], calls |-> taken]

\* The ExchangeToken arm going back to LoadBearerToken when the exchange
\* failed, for the next poll to try again.
poll_exchange_retry(att, cs) ==
    LET c == cs[att.future]
        taken == [cs EXCEPT ![att.future].status = "taken"]
    IN  IF c.status = "pending"
        THEN [att |-> [att EXCEPT !.last = NotReady], calls |-> cs]
        ELSE IF c.status = "taken"
        THEN [att |-> att, calls |-> cs]
        ELSE IF c.result.kind = "response"
        THEN [att |-> [att EXCEPT !.last = ready_response(c.result.r)], calls |-> taken]
        ELSE [ att |-> [att EXCEPT !.last = failed_exchange(c.result.e),
                                   !.state = "LoadBearerToken",
                                   !.token = Ok(SecretFrom(cs[att.future].req.web_identity_token)),
                                   !.role = Ok(cs[att.future].req.role_arn),
                                   !.session = Ok(cs[att.future].req.role_session_name)],
               calls |-> taken ]

\* The ExchangeToken arm giving up with an error while the call is in flight.
poll_exchange_timeout(att, cs) ==
    LET c == cs[att.future]
        taken == [cs EXCEPT ![att.future].status = "taken"]
    IN  IF c.status = "pending"
        THEN [ att |-> [att EXCEPT !.last = PollErr(CredentialsError(Message("timed out")))],
               calls |-> cs ]
        ELSE IF c.status = "taken"
        THEN [att |-> att, calls |-> cs]
        ELSE IF c.result.kind = "response"
        THEN [att |-> [att EXCEPT !.last = ready_response(c.result.r)], calls |-> taken]
        ELSE [att |-> [att EXCEPT !.last = failed_exchange(c.result.e)], calls |-> taken]

\* The ExchangeToken arm appending the request it sent to the error it
\* reports.
poll_exchange_echo(att, cs) ==
    LET c == cs[att.future]
        taken == [cs EXCEPT ![att.future].status = "taken"]
        sent == [type_name |-> "AssumeRoleWithWebIdentityRequest", fields |-> c.req]
    IN  IF c.status = "pending"
        THEN [att |-> [att EXCEPT !.last = NotReady], calls |-> cs]
        ELSE IF c.status = "taken"
        THEN [att |-> att, calls |-> cs]
        ELSE IF c.result.kind = "response"
        THEN [att |-> [att EXCEPT !.last = ready_response(c.result.r)], calls |-> taken]
        ELSE [ att |-> [att EXCEPT !.last = PollErr(CredentialsError(
                            [ text |-> to_string(c.result.e), about |-> "",
                              debug |-> Some(sent) ]))],
               calls |-> taken ]

\* The ExchangeToken arm that never looks at the result of the call.
poll_exchange_idle(att, cs) == [att |-> [att EXCEPT !.last = NotReady], calls |-> cs]

\* A RusotoFuture polled after its result was taken out of it holds nothing
\* to return: the poll panics, returning no value and changing neither the
\* future nor the client.
poll_after_completion(att, cs) == [att |-> att, calls |-> cs]

\* poll, ExchangeToken arm: the RusotoFuture is polled; a result is taken out
\* of it.
poll_exchange(att, cs) ==
    LET c == cs[att.future]
        taken == [cs EXCEPT ![att.future].status = "taken"]
    IN  IF c.status = "pending"
        THEN [att |-> [att EXCEPT !.last = NotReady], calls |-> cs]
        ELSE IF c.status = "taken"
        THEN poll_after_completion(att, cs)
        ELSE IF c.result.kind = "response"
        THEN [att |-> [att EXCEPT !.last = ready_response(c.result.r)], calls |-> taken]
        ELSE [att |-> [att EXCEPT !.last = failed_exchange(c.result.e)], calls |-> taken]

\* The arm handing the request to the client without replacing self.state.
poll_issue_stay(att, cs, i, http, first) ==
    IF ~http.ok
    THEN [ att |-> [att EXCEPT !.last = PollErr(CredentialsError(Message(to_string(http.e))))],
           calls |-> cs ]
    ELSE LET req == [ role_arn |-> att.role.v,
                      web_identity_token |-> as_ref(att.token.v),
                      role_session_name |-> att.session.v ]
         IN  [ att |-> [att EXCEPT !.last = NotReady],
               calls |-> assume_role_with_web_identity(cs, i, req, first) ]

\* The arm returning not-ready, instead of the error, when HttpClient::new()
\* failed.
poll_issue_swallow(att, cs, i, http, first) ==
    IF ~http.ok
    THEN [att |-> [att EXCEPT !.last = NotReady], calls |-> cs]
    ELSE LET req == [ role_arn |-> att.role.v,
                      web_identity_token |-> as_ref(att.token.v),
                      role_session_name |-> att.session.v ]
             cs2 == assume_role_with_web_identity(cs, i, req, first)
             att2 == [att EXCEPT !.state = "ExchangeToken", !.token = Gone, !.role = Gone,
                                 !.session = Gone, !.future = Len(cs2)]
         IN  poll_exchange(att2, cs2)

\* The arm resolving the role again when it builds the request, and using
\* the captured one only if that fails.
poll_issue_reresolve(att, cs, i, http, first) ==
    IF ~http.ok
    THEN [ att |-> [att EXCEPT !.last = PollErr(CredentialsError(Message(to_string(http.e))))],
           calls |-> cs ]
    ELSE LET now == resolve(provider.role_arn, env, files)
             req == [ role_arn |-> IF now.ok THEN now.v ELSE "",
                      web_identity_token |-> as_ref(att.token.v),
                      role_session_name |-> att.session.v ]
             cs2 == assume_role_with_web_identity(cs, i, req, first)
             att2 == [att EXCEPT !.state = "ExchangeToken", !.token = Gone, !.role = Gone,
                                 !.session = Gone, !.future = Len(cs2)]
         IN  poll_exchange(att2, cs2)

\* poll, LoadBearerToken(Ok(token), Ok(role), Ok(session)) arm.
poll_issue(att, cs, i, http, first) ==
    IF ~http.ok
    THEN [ att |-> [att EXCEPT !.last = PollErr(CredentialsError(Message(to_string(http.e))))],
           calls |-> cs ]
    ELSE LET req == [ role_arn |-> att.role.v,
                      web_identity_token |-> as_ref(att.token.v),
                      role_session_name |-> att.session.v ]
             cs2 == assume_role_with_web_identity(cs, i, req, first)
             att2 == [att EXCEPT !.state = "ExchangeToken", !.token = Gone, !.role = Gone,
                                 !.session = Gone, !.future = Len(cs2)]
         IN  poll_exchange(att2, cs2)

\* poll matching the role's error before the token's.
poll_role_first(att, cs, i, http, first) ==
    IF att.state = "LoadBearerToken"
    THEN IF ~att.role.ok THEN [att |-> [att EXCEPT !.last = PollErr(att.role.e)], calls |-> cs]
         ELSE IF ~att.token.ok THEN [att |-> [att EXCEPT !.last = PollErr(att.token.e)], calls |-> cs]
         ELSE IF ~att.session.ok THEN [att |-> [att EXCEPT !.last = PollErr(att.session.e)], calls |-> cs]
         ELSE poll_issue(att, cs, i, http, first)
    ELSE poll_exchange(att, cs)

\* poll going on with the default session name when the session name failed.
poll_default_session(att, cs, i, http, first) ==
    IF att.state = "LoadBearerToken"
    THEN IF ~att.token.ok THEN [att |-> [att EXCEPT !.last = PollErr(att.token.e)], calls |-> cs]
         ELSE IF ~att.role.ok THEN [att |-> [att EXCEPT !.last = PollErr(att.role.e)], calls |-> cs]
         ELSE IF ~att.session.ok
         THEN poll_issue([att EXCEPT !.session = Ok(create_session_name)], cs, i, http, first)
         ELSE poll_issue(att, cs, i, http, first)
    ELSE poll_exchange(att, cs)

\* Future::poll of WebIdentityProviderFuture.
poll(att, cs, i, http, first) ==
    IF att.state = "LoadBearerToken"
    THEN IF ~att.token.ok THEN [att |-> [att EXCEPT !.last = PollErr(att.token.e)], calls |-> cs]
         ELSE IF ~att.role.ok THEN [att |-> [att EXCEPT !.last = PollErr(att.role.e)], calls |-> cs]
         ELSE IF ~att.session.ok THEN [att |-> [att EXCEPT !.last = PollErr(att.session.e)], calls |-> cs]
         ELSE poll_issue(att, cs, i, http, first)
    ELSE poll_exchange(att, cs)

\* ------------------------------------------------------------ construction
TokenArgs == { with_value(SecretFrom(TOKEN_VALUE)), dynamic_failing("token source failed") }
RoleArgs == { with_value(ROLE_ARN), dynamic_failing("role source failed") }
SessionArgs ==
    { None, Some(with_value(SESSION_NAME)), Some(dynamic_failing("session source failed")) }

Constructions ==
    { [fn |-> "new", web_identity_token |-> t, role_arn |-> r, role_session_name |-> s] :
          t \in TokenArgs, r \in RoleArgs, s \in SessionArgs }
    \cup { [fn |-> "from_k8s_env"] }
    \cup { [ fn |-> "_from_k8s_env", token_file |-> with_value(TokenPath),
             role |-> with_value(ROLE_ARN), session_name |-> Some(with_value(SESSION_NAME)) ] }

Construct(c) ==
    CASE c.fn = "new" -> new(c.web_identity_token, c.role_arn, c.role_session_name)
      [] c.fn = "from_k8s_env" -> from_k8s_env
      [] c.fn = "_from_k8s_env" -> _from_k8s_env(c.token_file, c.role, c.session_name)

\* ------------------------------------------------------------ environment
EnvValue(k) ==
    CASE k = AWS_WEB_IDENTITY_TOKEN_FILE -> TokenPath
      [] k = AWS_ROLE_ARN -> ROLE_ARN
      [] k = AWS_ROLE_SESSION_NAME -> SESSION_NAME

Environments == { e \in [EnvKeys -> {None} \cup {Some(EnvValue(k)) : k \in EnvKeys}] :
                    \A k \in EnvKeys : e[k].some => e[k].v = EnvValue(k) }
FileSystems == [Paths -> {None} \cup {Some(t) : t \in FileTexts}]

\* The Results an attempt captured, and the value load_token returned, were
\* computed from an environment that has changed since.  An attempt keeps
\* the mark it has when it leaves LoadBearerToken: its request was built from
\* Results older than the environment of the poll that built it.
MarkStale(atts) ==
    [i \in AttemptIds |->
        IF atts[i].state = "LoadBearerToken" THEN [atts[i] EXCEPT !.stale = TRUE] ELSE atts[i]]

NotLoaded == [result |-> None, stale |-> FALSE]

\* ---------------------------------------------------------------- actions
Init ==
    /\ env \in Environments
    /\ files \in FileSystems
    /\ ctor \in Constructions
    /\ provider = Construct(ctor)
    /\ attempts = [i \in AttemptIds |-> NotStarted]
    /\ calls = <<>>
    /\ loaded = NotLoaded

\* The caller asks the provider for credentials; attempts are numbered in
\* the order of these calls.
Credentials(i) ==
    /\ attempts[i].state = "NotStarted"
    /\ \A j \in AttemptIds : j < i => attempts[j].state # "NotStarted"
    /\ attempts' = [attempts EXCEPT ![i] = credentials(provider, env, files)]
    /\ UNCHANGED <<env, files, provider, ctor, calls, loaded>>

\* The caller polls an attempt it holds, whatever its earlier polls returned.
Poll(i) ==
    /\ attempts[i].state \in {"LoadBearerToken", "ExchangeToken"}
    /\ \E in \in PollInputs(attempts[i]) :
          LET r == poll(attempts[i], calls, i, in.http, in.first)
          IN  /\ attempts' = [attempts EXCEPT ![i] = r.att]
              /\ calls' = r.calls
    /\ UNCHANGED <<env, files, provider, ctor, loaded>>

LoadToken ==
    /\ loaded' = [result |-> Some(load_token(provider, env, files)), stale |-> FALSE]
    /\ UNCHANGED <<env, files, provider, ctor, attempts, calls>>

\* The STS service or the transport produces the result of an invocation.
RemoteRespond(c) ==
    /\ calls[c].status = "pending"
    /\ \E x \in RemoteResults :
          calls' = [calls EXCEPT ![c].status = "ready", ![c].result = x]
    /\ UNCHANGED <<env, files, provider, ctor, attempts, loaded>>

\* The environment is changed from outside: a variable set or unset.
SetEnv(k) ==
    /\ \E v \in {None, Some(EnvValue(k))} :
          /\ v # env[k]
          /\ env' = [env EXCEPT ![k] = v]
    /\ attempts' = MarkStale(attempts)
    /\ loaded' = [loaded EXCEPT !.stale = loaded.result.some]
    /\ UNCHANGED <<files, provider, ctor, calls>>

\* The token file is written (rotated) or removed.
WriteFile(path) ==
    /\ \E t \in {None} \cup {Some(x) : x \in FileTexts} :
          /\ t # files[path]
          /\ files' = [files EXCEPT ![path] = t]
    /\ attempts' = MarkStale(attempts)
    /\ loaded' = [loaded EXCEPT !.stale = loaded.result.some]
    /\ UNCHANGED <<env, provider, ctor, calls>>

\* Dropping the future without dropping what its state holds (mem::forget):
\* the call stays in flight.
drop_future_leak(att, cs) == cs

\* A dropped RusotoFuture drops the call it still holds, in flight or with a
\* result nobody took; a call whose result was taken is over already.
drop_call(c) ==
    IF c.status \in {"pending", "ready"} THEN [c EXCEPT !.status = "cancelled"] ELSE c

\* Dropping WebIdentityProviderFuture drops its state and what the state owns:
\* in ExchangeToken the RusotoFuture, in LoadBearerToken the three Results,
\* which the client never saw.
drop_future(att, cs) ==
    IF att.state = "ExchangeToken"
    THEN [cs EXCEPT ![att.future] = drop_call(@)]
    ELSE cs

\* The caller cancels an attempt by dropping its future; nothing polls it
\* afterwards.
Drop(i) ==
    /\ attempts[i].state \in {"LoadBearerToken", "ExchangeToken"}
    /\ calls' = drop_future(attempts[i], calls)
    /\ attempts' = [attempts EXCEPT ![i] =
                       [@ EXCEPT !.state = "Dropped", !.token = Gone, !.role = Gone,
                                 !.session = Gone, !.stale = FALSE]]
    /\ UNCHANGED <<env, files, provider, ctor, loaded>>

Next ==
    \/ \E i \in AttemptIds : Credentials(i)
    \/ \E i \in AttemptIds : Poll(i)
    \/ \E c \in DOMAIN calls : RemoteRespond(c)
    \/ \E k \in EnvKeys : SetEnv(k)
    \/ \E path \in Paths : WriteFile(path)

Spec == Init /\ [][Next]_vars

\* The attempts as above, and the caller free to drop them.
NextCancel ==
    \/ \E i \in AttemptIds : Credentials(i)
    \/ \E i \in AttemptIds : Poll(i)
    \/ \E i \in AttemptIds : Drop(i)
    \/ \E c \in DOMAIN calls : RemoteRespond(c)
    \/ \E k \in EnvKeys : SetEnv(k)
    \/ \E path \in Paths : WriteFile(path)

SpecCancel == Init /\ [][NextCancel]_vars

\* A second bearer token, for the platform rotating the token file.
ROTATED_TOKEN_VALUE == <<"r", "o", "t", "a", "t", "e", "d">>
RotatedTexts ==
    {t \o Newlines(k) : t \in {TOKEN_VALUE, ROTATED_TOKEN_VALUE}, k \in 0..MaxTrail}

\* A provider reading the token file, in an environment that names the file,
\* the role and the session name.
InitRotation ==
    /\ env = [k \in EnvKeys |-> Some(EnvValue(k))]
    /\ files \in [Paths -> {None} \cup {Some(t) : t \in RotatedTexts}]
    /\ ctor \in {c \in Constructions : c.fn \in {"from_k8s_env", "_from_k8s_env"}}
    /\ provider = Construct(ctor)
    /\ attempts = [i \in AttemptIds |-> NotStarted]
    /\ calls = <<>>
    /\ loaded = NotLoaded

\* The platform replaces the token file, with the same token or another one.
RotateToken(path) ==
    /\ \E t \in RotatedTexts :
          /\ Some(t) # files[path]
          /\ files' = [files EXCEPT ![path] = Some(t)]
    /\ attempts' = MarkStale(attempts)
    /\ loaded' = [loaded EXCEPT !.stale = loaded.result.some]
    /\ UNCHANGED <<env, provider, ctor, calls>>

NextRotation ==
    \/ \E i \in AttemptIds : Credentials(i)
    \/ \E i \in AttemptIds : Poll(i)
    \/ \E c \in DOMAIN calls : RemoteRespond(c)
    \/ \E path \in Paths : RotateToken(path)

SpecRotation == InitRotation /\ [][NextRotation]_vars

\* An attempt issues at most one call, so the invocations are numbered
\* within as many numbers as there are attempts.
CallIds == 1..Cardinality(AttemptIds)

\* The client answers the invocation numbered c, once it exists.
Respond(c) == c \in DOMAIN calls /\ RemoteRespond(c)

\* Attempts in an environment that stays as it is, each polled for as long
\* as a poll can return something new, and every call answered.
NextFair ==
    \/ \E i \in AttemptIds : Credentials(i)
    \/ \E i \in AttemptIds : Poll(i)
    \/ \E c \in CallIds : Respond(c)

SpecFair ==
    /\ Init
    /\ [][NextFair]_vars
    /\ \A i \in AttemptIds : WF_vars(Poll(i))
    /\ \A c \in CallIds : WF_vars(Respond(c))

\* The provider used for credentials and, in between, for load_token.
NextLoad ==
    \/ \E i \in AttemptIds : Credentials(i)
    \/ \E i \in AttemptIds : Poll(i)
    \/ LoadToken
    \/ \E c \in DOMAIN calls : RemoteRespond(c)
    \/ \E k \in EnvKeys : SetEnv(k)
    \/ \E path \in Paths : WriteFile(path)

SpecLoad == Init /\ [][NextLoad]_vars

\* ------------------------------------------------------------------ claims
InLoad(i) == attempts[i].state = "LoadBearerToken"
InExchange(i) == attempts[i].state = "ExchangeToken"
Polled(i) == attempts[i].last.kind # "NotPolled"
CallsOf(i) == {c \in DOMAIN calls : calls[c].owner = i}
AnyInputFailed(a) == ~a.token.ok \/ ~a.role.ok \/ ~a.session.ok
FromTokenFile == ctor.fn \in {"from_k8s_env", "_from_k8s_env"}

\* C1: a polled attempt whose inputs failed reports the error of the first
\* failing input in the order token, role, session name: the token's error
\* whenever the token failed, the role's error when the token resolved and
\* the role failed, the session name's error when only it failed; with the
\* errors distinct, the session name's error is reported only if token and
\* role both resolved.
C1_ErrorPriority ==
    \A i \in AttemptIds :
        (InLoad(i) /\ Polled(i) /\ AnyInputFailed(attempts[i])) =>
            LET a == attempts[i]
            IN  /\ a.last.kind = "Err"
                /\ ~a.token.ok => a.last.e = a.token.e
                /\ (a.token.ok /\ ~a.role.ok) => a.last.e = a.role.e
                /\ (a.token.ok /\ a.role.ok) => a.last.e = a.session.e
                /\ (~a.session.ok /\ a.last.e = a.session.e) =>
                       \/ a.token.ok /\ a.role.ok
                       \/ ~a.token.ok /\ a.token.e = a.session.e
                       \/ ~a.role.ok /\ a.role.e = a.session.e

\* Two polled attempts of one provider: all three inputs failed in one, the
\* role and the session name in the other, the errors pairwise distinct.
C1_Witness ==
    \E i, j \in AttemptIds :
        /\ InLoad(i) /\ Polled(i) /\ InLoad(j) /\ Polled(j)
        /\ ~attempts[i].token.ok /\ ~attempts[i].role.ok /\ ~attempts[i].session.ok
        /\ attempts[i].token.e # attempts[i].role.e
        /\ attempts[i].role.e # attempts[i].session.e
        /\ attempts[i].last = PollErr(attempts[i].token.e)
        /\ attempts[j].token.ok /\ ~attempts[j].role.ok /\ ~attempts[j].session.ok
        /\ attempts[j].last = PollErr(attempts[j].role.e)

\* C2: an attempt with a failed input has failed once polled and the STS
\* client has seen no invocation for it, whatever the number of polls; and a
\* step that issues an invocation for an attempt starts from that attempt
\* holding three resolved inputs.
C2_NoCallOnFailedInput ==
    [][ /\ \A i \in AttemptIds :
              (InLoad(i) /\ AnyInputFailed(attempts[i]))' =>
                  (CallsOf(i) = {} /\ (Polled(i) => attempts[i].last.kind = "Err"))'
        /\ \A i \in AttemptIds :
              CallsOf(i)' # CallsOf(i) =>
                  /\ InLoad(i)
                  /\ ~AnyInputFailed(attempts[i]) ]_vars

\* The token-file path variable was unset: the attempt was polled, failed with
\* that error, and no invocation was made, while the other attempt made one.
C2_Witness ==
    \E i, j \in AttemptIds :
        /\ ctor.fn = "from_k8s_env"
        /\ InLoad(i) /\ Polled(i)
        /\ attempts[i].token = Err(MissingInput(AWS_WEB_IDENTITY_TOKEN_FILE))
        /\ attempts[i].last = PollErr(MissingInput(AWS_WEB_IDENTITY_TOKEN_FILE))
        /\ CallsOf(i) = {}
        /\ CallsOf(j) # {}

\* C3: for a provider built by from_k8s_env, an attempt that resolved the
\* token and the role while AWS_ROLE_SESSION_NAME was unset holds the session
\* name "WebIdentitySession", and does not fail on the session name.
C3_SessionNameOptional ==
    ctor.fn = "from_k8s_env" =>
        \A i \in AttemptIds :
            ( /\ InLoad(i) /\ ~attempts[i].stale
              /\ attempts[i].token.ok /\ attempts[i].role.ok
              /\ ~env[AWS_ROLE_SESSION_NAME].some ) =>
                /\ attempts[i].session = Ok("WebIdentitySession")
                /\ attempts[i].last.kind # "Err"

\* The credentials a response's payload stands for.
PayloadAsCredentials(c) ==
    [ key |-> c.access_key_id, secret |-> c.secret_access_key,
      token |-> Some(c.session_token), expires_at |-> Some(c.expiration) ]

Taken(c) == calls[c].status = "taken"
TakenWithPayload(c) ==
    Taken(c) /\ calls[c].result.kind = "response" /\ calls[c].result.r.credentials.some
TakenEmpty(c) ==
    Taken(c) /\ calls[c].result.kind = "response" /\ ~calls[c].result.r.credentials.some
TakenError(c) == Taken(c) /\ calls[c].result.kind = "error"

C5_EmptyResponse ==
    \A c \in DOMAIN calls :
        TakenEmpty(c) =>
            LET l == attempts[calls[c].owner].last
            IN  /\ l.kind = "Err"
                /\ l.e.message.text = "No credentials found in AssumeRoleWithWebIdentityResponse: "
                /\ l.e.message.debug.some
                /\ l.e.message.debug.v.fields = calls[c].result.r

C5_Witness ==
    \E c \in DOMAIN calls :
        /\ TakenEmpty(c)
        /\ attempts[calls[c].owner].last.kind = "Err"
        /\ attempts[calls[c].owner].last.e.message.debug.some

\* C6: an attempt whose exchange failed at the service or the transport
\* failed with a CredentialsError whose message is the message of that error.
C6_RemoteError ==
    \A c \in DOMAIN calls :
        TakenError(c) =>
            LET l == attempts[calls[c].owner].last
            IN  /\ l.kind = "Err"
                /\ l.e = CredentialsError([text |-> calls[c].result.e.cause,
                                           about |-> "", debug |-> None])

C6_Witness ==
    \E c, d \in DOMAIN calls :
        /\ TakenError(c) /\ TakenError(d)
        /\ calls[c].result.e.variant = "ExpiredToken"
        /\ calls[d].result.e.variant = "HttpDispatch"
        /\ attempts[calls[c].owner].last.e.message.text = "token is expired"
        /\ attempts[calls[d].owner].last.e.message.text = "connection reset"

\* C7: for a provider built from a token-file path, a token resolved from the
\* file is the file's text without its trailing newlines ("secret\n" gives
\* "secret"): in what load_token returns, in what an attempt captures, and in
\* the token of every request.
C7_TokenTrimmed ==
    FromTokenFile =>
        /\ \A c \in DOMAIN calls : calls[c].req.web_identity_token = TOKEN_VALUE
        /\ \A i \in AttemptIds :
              (InLoad(i) /\ attempts[i].token.ok) => as_ref(attempts[i].token.v) = TOKEN_VALUE
        /\ (loaded.result.some /\ loaded.result.v.ok) => as_ref(loaded.result.v.v) = TOKEN_VALUE

\* The file holds "secret\n"; load_token returned "secret" from it and an
\* attempt started on it sent "secret".
C7_Witness ==
    /\ FromTokenFile
    /\ files[TokenPath] = Some(<<"s", "e", "c", "r", "e", "t", "\n">>)
    /\ loaded = [result |-> Some(Ok(SecretFrom(TOKEN_VALUE))), stale |-> FALSE]
    /\ \E c \in DOMAIN calls : calls[c].req.web_identity_token = <<"s", "e", "c", "r", "e", "t">>

\* C8: while the environment and the files are as they were when load_token
\* was called and when an attempt was started, the attempt's captured token
\* Result is what load_token returned; and a call of load_token changes no
\* attempt and no invocation.
C8_LoadTokenSame ==
    [][ /\ \A i \in AttemptIds :
              (InLoad(i) /\ ~attempts[i].stale /\ loaded.result.some /\ ~loaded.stale)' =>
                  (attempts[i].token = loaded.result.v)'
        /\ loaded'.result # loaded.result => UNCHANGED <<attempts, calls>> ]_vars

\* An attempt captured a token and another a resolution error, each equal to
\* what load_token returned in the same environment.
C8_Witness ==
    \E i, j \in AttemptIds :
        /\ FromTokenFile
        /\ InLoad(i) /\ ~attempts[i].stale /\ ~loaded.stale
        /\ loaded.result = Some(attempts[i].token)
        /\ ~attempts[i].token.ok
        /\ InExchange(j)

\* C9: an attempt started by credentials() holds the three inputs as they
\* resolve in the environment and files of that moment; every invocation
\* belongs to one attempt and an attempt in ExchangeToken holds an invocation
\* of its own; and a step of one attempt (credentials or poll) changes neither
\* another attempt nor another attempt's invocation.
C9_Independent ==
    [][ \A i \in AttemptIds :
          /\ (~InLoad(i) /\ InLoad(i)' /\ attempts[i].state = "NotStarted") =>
                /\ attempts'[i].token = resolve(provider.web_identity_token, env, files)
                /\ attempts'[i].role = resolve(provider.role_arn, env, files)
                /\ attempts'[i].session = resolve(provider.role_session_name, env, files)
          /\ InExchange(i)' =>
                /\ attempts'[i].future \in CallsOf(i)'
                /\ Cardinality(CallsOf(i)') = 1
          /\ (Credentials(i) \/ Poll(i)) =>
                \A j \in AttemptIds \ {i} :
                    /\ attempts'[j] = attempts[j]
                    /\ \A c \in CallsOf(j) : calls'[c] = calls[c] ]_vars

\* Two attempts of one provider, each in ExchangeToken with an invocation of
\* its own: one completed with credentials, the other with an error.
C9_Witness ==
    \E i, j \in AttemptIds :
        /\ i # j
        /\ InExchange(i) /\ InExchange(j)
        /\ attempts[i].future # attempts[j].future
        /\ attempts[i].last.kind = "Ready"
        /\ attempts[j].last.kind = "Err"

\* C10: a provider constructed by new holds the session name it was given,
\* and with none given holds the fixed value "WebIdentitySession", whose
\* resolution succeeds in every attempt.
C10_SessionNameDefault ==
    ctor.fn = "new" =>
        /\ ctor.role_session_name.some =>
              provider.role_session_name = ctor.role_session_name.v
        /\ ~ctor.role_session_name.some =>
              /\ provider.role_session_name = [kind |-> "Fixed", value |-> "WebIdentitySession"]
              /\ \A i \in AttemptIds : InLoad(i) => attempts[i].session = Ok("WebIdentitySession")
              /\ \A c \in DOMAIN calls : calls[c].req.role_session_name = "WebIdentitySession"

C10_Witness ==
    /\ ctor.fn = "new"
    /\ ~ctor.role_session_name.some
    /\ \E i \in AttemptIds : InLoad(i) /\ attempts[i].session = Ok("WebIdentitySession")
    /\ \E c \in DOMAIN calls : calls[c].req.role_session_name = "WebIdentitySession"

\* C11: the STS client sees at most one invocation for an attempt, whatever
\* polls were made of it, those after a poll that returned not-ready, an
\* error or credentials included.
C11_AtMostOneCall ==
    \A i \in AttemptIds : Cardinality(CallsOf(i)) <= 1

\* Two attempts with one invocation each: one took credentials out of its
\* call, the other reported an error.
C11_Witness ==
    \E i, j \in AttemptIds :
        /\ i # j
        /\ InExchange(i) /\ Cardinality(CallsOf(i)) = 1
        /\ calls[attempts[i].future].status = "taken"
        /\ attempts[i].last.kind = "Ready"
        /\ InExchange(j) /\ Cardinality(CallsOf(j)) = 1
        /\ attempts[j].last.kind = "Err"

\* C12: once a poll of an attempt has returned an error, a later poll of it
\* issues no invocation, does not leave the state it is in to build the
\* request, and returns no credentials.
C12_FailureTerminal ==
    [][ \A i \in AttemptIds :
          attempts[i].last.kind = "Err" =>
              /\ CallsOf(i)' = CallsOf(i)
              /\ attempts'[i].state = attempts[i].state
              /\ attempts'[i].last.kind # "Ready" ]_vars

\* C13: an attempt starts in LoadBearerToken, its only change of state is
\* from LoadBearerToken to ExchangeToken, and from ExchangeToken it goes
\* nowhere.
C13_ForwardOnly ==
    [][ \A i \in AttemptIds :
          /\ attempts[i].state = "NotStarted" =>
                attempts'[i].state \in {"NotStarted", "LoadBearerToken"}
          /\ InLoad(i) => attempts'[i].state \in {"LoadBearerToken", "ExchangeToken"}
          /\ InExchange(i) => attempts'[i].state = "ExchangeToken" ]_vars

\* An attempt that went to ExchangeToken and whose exchange failed, still in
\* ExchangeToken; the other attempt still in LoadBearerToken after a poll.
C13_Witness ==
    \E i, j \in AttemptIds :
        /\ InExchange(i)
        /\ calls[attempts[i].future].status = "taken"
        /\ calls[attempts[i].future].result.kind = "error"
        /\ attempts[i].last.kind = "Err"
        /\ InLoad(j) /\ Polled(j)

\* C14 as stated: an attempt with three resolved inputs goes to ExchangeToken
\* at its first poll, so that no polled attempt is left in LoadBearerToken
\* with three resolved inputs, and an attempt in ExchangeToken has issued
\* exactly one invocation.
C14_FirstPollIssues ==
    \A i \in AttemptIds :
        /\ (InLoad(i) /\ ~AnyInputFailed(attempts[i])) => ~Polled(i)
        /\ InExchange(i) => Cardinality(CallsOf(i)) = 1

\* C14 amended: a polled attempt with three resolved inputs is either in
\* ExchangeToken with exactly one invocation, its own, or still in
\* LoadBearerToken with no invocation and the error of HttpClient::new()
\* returned by its last poll.
C14_FirstPollIssuesOrClientError ==
    \A i \in AttemptIds :
        /\ (InLoad(i) /\ ~AnyInputFailed(attempts[i]) /\ Polled(i)) =>
              /\ attempts[i].last =
                     PollErr(CredentialsError([ text |-> "TLS backend cannot be initialized",
                                                about |-> "", debug |-> None ]))
              /\ CallsOf(i) = {}
        /\ InExchange(i) =>
              /\ CallsOf(i) = {attempts[i].future}
              /\ Polled(i)

\* One attempt's first poll failed on HttpClient::new(); the other attempt's
\* first poll handed its request to the client.
C14_Witness ==
    \E i, j \in AttemptIds :
        /\ InLoad(i) /\ ~AnyInputFailed(attempts[i]) /\ attempts[i].last.kind = "Err"
        /\ CallsOf(i) = {}
        /\ InExchange(j) /\ CallsOf(j) = {attempts[j].future}
        /\ calls[attempts[j].future].status = "pending"

\* C15: the request a poll hands to the client carries the role, the token
\* text and the session name the attempt captured at credentials(), whatever
\* the environment and the token file are at the time of the poll.
C15_RequestFromCapture ==
    [][ \A i \in AttemptIds :
          CallsOf(i)' # CallsOf(i) =>
              /\ InLoad(i) /\ ~AnyInputFailed(attempts[i])
              /\ \A c \in CallsOf(i)' \ CallsOf(i) :
                    calls'[c].req = [ role_arn |-> attempts[i].role.v,
                                      web_identity_token |-> attempts[i].token.v.secret,
                                      role_session_name |-> attempts[i].session.v ] ]_vars

\* A provider built by from_k8s_env whose environment was changed between
\* credentials() and the poll that issued the request: the request carries
\* the role, token and session name of before, none of which resolves now.
C15_Witness ==
    \E i \in AttemptIds :
        /\ ctor.fn = "from_k8s_env"
        /\ InExchange(i) /\ attempts[i].stale
        /\ calls[attempts[i].future].req =
               [ role_arn |-> "role", web_identity_token |-> TOKEN_VALUE,
                 role_session_name |-> "session" ]
        /\ \A k \in EnvKeys : ~env[k].some
        /\ ~files[TokenPath].some

InFlight(i) == InExchange(i) /\ calls[attempts[i].future].status = "pending"

\* C16: while an attempt is in ExchangeToken and its call has produced no
\* result, its polls return not-ready and change nothing of the attempt, and
\* the call stays the one it holds; a poll in ExchangeToken returns
\* credentials or an error only by taking a result the client produced.
C16_SuspendedUntilResult ==
    [][ \A i \in AttemptIds :
          /\ InFlight(i)' => attempts'[i].last = NotReady
          /\ InFlight(i) =>
                /\ attempts'[i] = attempts[i]
                /\ calls'[attempts[i].future].req = calls[attempts[i].future].req
                /\ calls'[attempts[i].future].status \in {"pending", "ready"}
          /\ (InExchange(i)' /\ attempts'[i].last # attempts[i].last
                /\ attempts'[i].last.kind \in {"Ready", "Err"}) =>
                /\ calls'[attempts'[i].future].status = "taken"
                /\ calls'[attempts'[i].future].result \in RemoteResults ]_vars

\* An attempt polled while its call is in flight, and an attempt that got
\* credentials from the result of its call.
C16_Witness ==
    \E i, j \in AttemptIds :
        /\ InFlight(i) /\ attempts[i].last = NotReady
        /\ InExchange(j) /\ attempts[j].last.kind = "Ready"
        /\ calls[attempts[j].future].status = "taken"

Dropped(i) == attempts[i].state = "Dropped"

\* C17: dropping an attempt in ExchangeToken drops the call it holds in
\* flight, dropping an attempt in LoadBearerToken leaves the client as it is,
\* with no invocation for that attempt; a dropped attempt returns nothing any
\* more and its invocation gets no result.
C17_Cancel ==
    [][ \A i \in AttemptIds :
          /\ (InExchange(i) /\ Dropped(i)') =>
                /\ calls'[attempts[i].future].status \in {"cancelled", "taken"}
                /\ calls[attempts[i].future].status # "taken" =>
                       calls'[attempts[i].future].status = "cancelled"
          /\ (InLoad(i) /\ Dropped(i)') => (calls' = calls /\ CallsOf(i) = {})
          /\ Dropped(i) =>
                /\ attempts'[i] = attempts[i]
                /\ \A c \in CallsOf(i) : calls'[c] = calls[c] ]_vars

\* One attempt dropped while its call was in flight, the other dropped in
\* LoadBearerToken before any poll.
C17_Witness ==
    \E i, j \in AttemptIds :
        /\ Dropped(i) /\ attempts[i].future # 0
        /\ calls[attempts[i].future].status = "cancelled"
        /\ calls[attempts[i].future].result = NoResult
        /\ attempts[i].last = NotReady
        /\ Dropped(j) /\ attempts[j].future = 0 /\ CallsOf(j) = {}

\* Two attempts that sent requests with the same role and session name and
\* took the same result from the client.
SameExchange(i, j) ==
    /\ InExchange(i) /\ InExchange(j)
    /\ calls[attempts[i].future].status = "taken"
    /\ calls[attempts[j].future].status = "taken"
    /\ calls[attempts[i].future].result = calls[attempts[j].future].result
    /\ calls[attempts[i].future].req.role_arn = calls[attempts[j].future].req.role_arn
    /\ calls[attempts[i].future].req.role_session_name =
          calls[attempts[j].future].req.role_session_name

\* Two attempts holding resolved inputs, the same but for the token, that
\* both reported an error before any call.
SameClientFailure(i, j) ==
    /\ InLoad(i) /\ InLoad(j)
    /\ attempts[i].token.ok /\ attempts[j].token.ok
    /\ attempts[i].role = attempts[j].role
    /\ attempts[i].session = attempts[j].session
    /\ attempts[i].last.kind = "Err" /\ attempts[j].last.kind = "Err"

\* C18: what an attempt returns does not depend on the bearer token: two
\* attempts that differ in nothing but the token and got the same result
\* from the client (or failed before the call) return the same credentials
\* or the same error.
C18_TokenNotInOutcome ==
    \A i, j \in AttemptIds :
        (SameExchange(i, j) \/ SameClientFailure(i, j)) => attempts[i].last = attempts[j].last

\* Two attempts that sent different tokens, got the same error from the
\* client and reported it.
C18_Witness ==
    \E i, j \in AttemptIds :
        /\ SameExchange(i, j)
        /\ calls[attempts[i].future].req.web_identity_token = TOKEN_VALUE
        /\ calls[attempts[j].future].req.web_identity_token = ROTATED_TOKEN_VALUE
        /\ calls[attempts[i].future].result.kind = "error"
        /\ attempts[i].last.kind = "Err"

Terminal(i) == attempts[i].last.kind \in {"Ready", "Err"}

\* C19: an attempt that is polled for as long as polls bring something new,
\* and whose call is answered, comes to return credentials or an error; an
\* attempt with a failed input has its error from the first poll on.
C19_Terminates ==
    /\ \A i \in AttemptIds : (attempts[i].state # "NotStarted") ~> Terminal(i)
    /\ [](\A i \in AttemptIds :
             (InLoad(i) /\ AnyInputFailed(attempts[i]) /\ Polled(i)) =>
                 attempts[i].last.kind = "Err")

\* An attempt that went through its call to credentials next to one that
\* went through its call to the client's error.
C19_Witness ==
    \E i, j \in AttemptIds :
        /\ InExchange(i) /\ attempts[i].last.kind = "Ready"
        /\ InExchange(j) /\ attempts[j].last.kind = "Err"
        /\ calls[attempts[i].future].status = "taken"
        /\ calls[attempts[j].future].status = "taken"

====
